---- MODULE Spec2Model ----
(***************************************************************************)
(* A model of signals/base_signal.py: the signal algebra (BaseSignal and   *)
(* its operator methods), the four composite nodes, the windowed Signal    *)
(* and the Const leaf, with evaluation at one timestamp (__call__) and at  *)
(* a sequence of timestamps (eval_on).                                     *)
(*                                                                         *)
(* Objects live in a heap, `nodes`: a node's identity is its index, so     *)
(* that a + a holds the same object twice.  Numbers are Python numbers: a  *)
(* type tag ("int" or "float") and an exact fraction n/d in lowest terms   *)
(* with d > 0; d = 0 stands for the float infinities (n = 1, n = -1).      *)
(* The rounding of binary floating point is not modelled.                  *)
(***************************************************************************)
EXTENDS Integers, Sequences, FiniteSets, TLC

VARIABLES
    scn,    \* which family of inputs the client draws from (fixed in a run)
    nodes,  \* the heap: the sequence of signal objects built so far
    last    \* the last operation: what was called, and what came back

vars == <<scn, nodes, last>>

(***************************************************************************)
(* Bounds of the model.                                                    *)
(***************************************************************************)
\* the most nodes a client builds
MaxNodes == 3

\* the most timestamps in a batch
MaxLen == 2

(***************************************************************************)
(* Python numbers.                                                         *)
(***************************************************************************)
Abs(x) == IF x < 0 THEN -x ELSE x

RECURSIVE GCD(_, _)
GCD(a, b) == IF b = 0 THEN a ELSE GCD(b, a % b)

\* The number n/d (d # 0) of type ty, in lowest terms with a positive denominator.
Num(ty, n, d) ==
    LET g == GCD(Abs(n), Abs(d))
        s == IF d < 0 THEN -1 ELSE 1
    IN  [ty |-> ty, n |-> (s * n) \div g, d |-> (s * d) \div g]

PyInt(n) == [ty |-> "int", n |-> n, d |-> 1]

PyFloat(n, d) == Num("float", n, d)

\* numpy's PINF and NINF (Python floats), and nan
PINF == [ty |-> "float", n |-> 1, d |-> 0]

NINF == [ty |-> "float", n |-> -1, d |-> 0]

NAN == [ty |-> "float", n |-> 0, d |-> 0]

IsFinite(a) == a.d # 0

\* The type of the result of + - * on two Python numbers.
ResultType(a, b) == IF a.ty = "int" /\ b.ty = "int" THEN "int" ELSE "float"

\* a <= b and a < b on Python numbers (every comparison with nan is false).
py_le(a, b) ==
    IF a = NAN \/ b = NAN THEN FALSE
    ELSE IF ~IsFinite(a) /\ ~IsFinite(b) THEN a.n <= b.n
    ELSE IF ~IsFinite(a) THEN a.n < 0
    ELSE IF ~IsFinite(b) THEN b.n > 0
    ELSE a.n * b.d <= b.n * a.d

py_lt(a, b) ==
    IF a = NAN \/ b = NAN THEN FALSE
    ELSE IF ~IsFinite(a) /\ ~IsFinite(b) THEN a.n < b.n
    ELSE IF ~IsFinite(a) THEN a.n < 0
    ELSE IF ~IsFinite(b) THEN b.n > 0
    ELSE a.n * b.d < b.n * a.d

\* What an evaluation comes to: a value returned or an exception raised.
Return(v) == [kind |-> "value", val |-> v]

Raise(e) == [kind |-> "raise", exc |-> e]

Sign(x) == IF x < 0 THEN -1 ELSE IF x > 0 THEN 1 ELSE 0

Inf(sign) == [ty |-> "float", n |-> sign, d |-> 0]

\* a + b, a - b and a * b: exact on finite numbers, IEEE 754 on the infinities
\* and nan (inf - inf and 0 * inf are nan).
py_add(a, b) ==
    IF a = NAN \/ b = NAN THEN NAN
    ELSE IF ~IsFinite(a) /\ ~IsFinite(b) THEN (IF a.n = b.n THEN a ELSE NAN)
    ELSE IF ~IsFinite(a) THEN a
    ELSE IF ~IsFinite(b) THEN b
    ELSE Num(ResultType(a, b), a.n * b.d + b.n * a.d, a.d * b.d)

py_sub(a, b) ==
    IF a = NAN \/ b = NAN THEN NAN
    ELSE IF ~IsFinite(a) /\ ~IsFinite(b) THEN (IF a.n = b.n THEN NAN ELSE a)
    ELSE IF ~IsFinite(a) THEN a
    ELSE IF ~IsFinite(b) THEN Inf(-b.n)
    ELSE Num(ResultType(a, b), a.n * b.d - b.n * a.d, a.d * b.d)

py_mul(a, b) ==
    IF a = NAN \/ b = NAN THEN NAN
    ELSE IF ~IsFinite(a) \/ ~IsFinite(b)
    THEN (IF a.n = 0 \/ b.n = 0 THEN NAN ELSE Inf(Sign(a.n) * Sign(b.n)))
    ELSE Num(ResultType(a, b), a.n * b.n, a.d * b.d)

\* The division of IEEE 754, which a zero divisor takes to an infinity or to nan.
ieee_truediv(a, b) ==
    IF a = NAN \/ b = NAN THEN Return(NAN)
    ELSE IF IsFinite(b) /\ b.n = 0
    THEN Return(IF a.n = 0 THEN NAN ELSE Inf(Sign(a.n)))
    ELSE IF ~IsFinite(a) /\ ~IsFinite(b) THEN Return(NAN)
    ELSE IF ~IsFinite(a) THEN Return(Inf(Sign(a.n) * Sign(b.n)))
    ELSE IF ~IsFinite(b) THEN Return(PyFloat(0, 1))
    ELSE Return(PyFloat(a.n * b.d, a.d * b.n))

\* a / b: Python's true division gives a float, and raises on a zero divisor,
\* int or float, whatever the dividend.
py_truediv(a, b) ==
    IF IsFinite(b) /\ b.n = 0 THEN Raise("ZeroDivisionError")
    ELSE IF a = NAN \/ b = NAN THEN Return(NAN)
    ELSE IF ~IsFinite(a) /\ ~IsFinite(b) THEN Return(NAN)
    ELSE IF ~IsFinite(a) THEN Return(Inf(Sign(a.n) * Sign(b.n)))
    ELSE IF ~IsFinite(b) THEN Return(PyFloat(0, 1))
    ELSE Return(PyFloat(a.n * b.d, a.d * b.n))

(***************************************************************************)
(* The classes.  A Const is a dataclass whose fields are, in order,        *)
(* t_start, t_end (declared by Signal) and value (added by Const): a       *)
(* field a subclass declares again keeps the place the base class gave it  *)
(* and takes the new default.                                              *)
(***************************************************************************)
CompositeClasses ==
    {"SumOfSignals", "DifferenceOfSignals", "ProductOfSignals", "DivisionOfSignals"}

Const_fields == <<"t_start", "t_end", "value">>

\* Const without its own default for t_start: the window of Signal, from 0.
Const_defaults_of_Signal == [t_start |-> PyFloat(0, 1), t_end |-> PINF, value |-> PyFloat(0, 1)]

Const_defaults == [t_start |-> NINF, t_end |-> PINF, value |-> PyFloat(0, 1)]

\* A new object on the heap: the heap with it, and its identity.
New(heap, obj) == [heap |-> Append(heap, obj), id |-> Len(heap) + 1]

\* Const(*args, **kwargs), the __init__ the dataclass generates: the node, or the
\* TypeError of a call that gives too many arguments or one field twice.
Const_init(args, kwargs) ==
    IF Len(args) > Len(Const_fields)
    THEN [kind |-> "raise", exc |-> "TypeError", msg |-> "too many positional arguments"]
    ELSE IF \E i \in 1..Len(args) : Const_fields[i] \in DOMAIN kwargs
    THEN [kind |-> "raise", exc |-> "TypeError", msg |-> "multiple values for argument"]
    ELSE LET Field(i) ==
                 IF i <= Len(args) THEN args[i]
                 ELSE IF Const_fields[i] \in DOMAIN kwargs THEN kwargs[Const_fields[i]]
                 ELSE Const_defaults[Const_fields[i]]
         IN  [kind |-> "object",
              obj |-> [cls |-> "Const", t_start |-> Field(1), t_end |-> Field(2),
                       value |-> Field(3)]]

\* Const(value=v), as the operator methods build it.
Const_value(v) == Const_init(<<>>, [value |-> v]).obj

\* TwoSidedOperation's __init__, which the four subclasses inherit; cls is the subclass.
TwoSidedOperation(cls, lhs, rhs) == [cls |-> cls, lhs |-> lhs, rhs |-> rhs]

(***************************************************************************)
(* Evaluation at one timestamp.  An evaluation comes to [out, sig]: what   *)
(* it returned or raised, and the calls of _signal it made, in order, each *)
(* with the node and the local time it was given.                          *)
(***************************************************************************)
\* Const._signal
Const_signal(self, t) == self.value

\* Signal.__call__ with a window closed at t_end.
Signal_call_closed(self, id, t) ==
    IF py_le(self.t_start, t) /\ py_le(t, self.t_end)
    THEN [out |-> Return(Const_signal(self, py_sub(t, self.t_start))),
          sig |-> <<[node |-> id, t |-> py_sub(t, self.t_start)]>>]
    ELSE [out |-> Return(PyFloat(0, 1)), sig |-> <<>>]

\* Signal.__call__ on the object self, whose identity is id.
Signal_call(self, id, t) ==
    IF py_le(self.t_start, t) /\ py_lt(t, self.t_end)
    THEN [out |-> Return(Const_signal(self, py_sub(t, self.t_start))),
          sig |-> <<[node |-> id, t |-> py_sub(t, self.t_start)]>>]
    ELSE [out |-> Return(PyFloat(0, 1)), sig |-> <<>>]

\* The four operators of the composite nodes, on the values of the operands.
SumOfSignals_op(x, y) == Return(py_add(x, y))

\* The difference with its operands exchanged.
DifferenceOfSignals_op_swapped(x, y) == Return(py_sub(y, x))

DifferenceOfSignals_op(x, y) == Return(py_sub(x, y))

ProductOfSignals_op(x, y) == Return(py_mul(x, y))

\* The quotient under IEEE 754 division, as numpy floats would give it.
DivisionOfSignals_op_ieee(x, y) == ieee_truediv(x, y)

DivisionOfSignals_op(x, y) == py_truediv(x, y)

Operator(cls, x, y) ==
    CASE cls = "SumOfSignals" -> SumOfSignals_op(x, y)
      [] cls = "DifferenceOfSignals" -> DifferenceOfSignals_op(x, y)
      [] cls = "ProductOfSignals" -> ProductOfSignals_op(x, y)
      [] cls = "DivisionOfSignals" -> DivisionOfSignals_op(x, y)

\* self.lhs(t) <op> self.rhs(t): the left operand is evaluated first, the right
\* one only if the left returned, and the operator only if both returned.
TwoSidedOperation_call(cls, l, r) ==
    IF l.out.kind = "raise" THEN l
    ELSE IF r.out.kind = "raise" THEN [out |-> r.out, sig |-> l.sig \o r.sig]
    ELSE [out |-> Operator(cls, l.out.val, r.out.val), sig |-> l.sig \o r.sig]

\* heap[id](t)
RECURSIVE BaseSignal_call(_, _, _)
BaseSignal_call(heap, id, t) ==
    IF heap[id].cls = "Const" THEN Signal_call(heap[id], id, t)
    ELSE TwoSidedOperation_call(heap[id].cls,
                                BaseSignal_call(heap, heap[id].lhs, t),
                                BaseSignal_call(heap, heap[id].rhs, t))

(***************************************************************************)
(* The operator methods of BaseSignal.  `other` is what the client passes: *)
(* a signal (by identity), a number, or some other object (by its type).   *)
(* Each comes to [heap, ret]: the heap afterwards and what was returned or *)
(* raised.  A number operand is first made a Const, then the composite.    *)
(***************************************************************************)
TypeOf(heap, x) ==
    CASE x.kind = "signal" -> heap[x.id].cls
      [] x.kind = "num" -> x.val.ty
      [] x.kind = "obj" -> x.type

\* The TypeError of an operator method: the message names the operator and the
\* two types, in the order the method writes them.
TypeError(operator, left, right) ==
    [kind |-> "raise", exc |-> "TypeError", operator |-> operator,
     left |-> left, right |-> right]

Me(self) == [kind |-> "signal", id |-> self]

\* An operator that works in place: a composite self becomes cls(self, rhs).
Composite_in_place(heap, cls, lhs, rhs) ==
    IF heap[lhs].cls # "Const"
    THEN [heap |-> [heap EXCEPT ![lhs] = TwoSidedOperation(cls, lhs, rhs)],
          ret |-> [kind |-> "node", id |-> lhs]]
    ELSE [heap |-> Append(heap, TwoSidedOperation(cls, lhs, rhs)),
          ret |-> [kind |-> "node", id |-> Len(heap) + 1]]

\* cls(lhs, rhs), lhs and rhs the identities of two signals
Composite(heap, cls, lhs, rhs) ==
    LET r == New(heap, TwoSidedOperation(cls, lhs, rhs))
    IN  [heap |-> r.heap, ret |-> [kind |-> "node", id |-> r.id]]

\* cls(self, Const(value=other))
CompositeRightConst(heap, cls, self, v) ==
    LET c == New(heap, Const_value(v)) IN Composite(c.heap, cls, self, c.id)

\* cls(Const(value=other), self)
CompositeLeftConst(heap, cls, v, self) ==
    LET c == New(heap, Const_value(v)) IN Composite(c.heap, cls, c.id, self)

BaseSignal_add(heap, self, other) ==
    IF other.kind = "signal" THEN Composite(heap, "SumOfSignals", self, other.id)
    ELSE IF other.kind = "num"
    THEN CompositeRightConst(heap, "SumOfSignals", self, other.val)
    ELSE [heap |-> heap,
          ret |-> TypeError("+", TypeOf(heap, Me(self)), TypeOf(heap, other))]

BaseSignal_radd(heap, self, other) == BaseSignal_add(heap, self, other)

BaseSignal_mul(heap, self, other) ==
    IF other.kind = "signal" THEN Composite(heap, "ProductOfSignals", self, other.id)
    ELSE IF other.kind = "num"
    THEN CompositeRightConst(heap, "ProductOfSignals", self, other.val)
    ELSE [heap |-> heap,
          ret |-> TypeError("*", TypeOf(heap, Me(self)), TypeOf(heap, other))]

BaseSignal_rmul(heap, self, other) == BaseSignal_mul(heap, self, other)

BaseSignal_sub(heap, self, other) ==
    IF other.kind = "signal" THEN Composite(heap, "DifferenceOfSignals", self, other.id)
    ELSE IF other.kind = "num"
    THEN CompositeRightConst(heap, "DifferenceOfSignals", self, other.val)
    ELSE [heap |-> heap,
          ret |-> TypeError("-", TypeOf(heap, Me(self)), TypeOf(heap, other))]

\* __rsub__ written as __sub__ is: self on the left.
BaseSignal_rsub_as_sub(heap, self, other) ==
    IF other.kind = "signal" THEN Composite(heap, "DifferenceOfSignals", self, other.id)
    ELSE IF other.kind = "num"
    THEN CompositeRightConst(heap, "DifferenceOfSignals", self, other.val)
    ELSE [heap |-> heap,
          ret |-> TypeError("-", TypeOf(heap, other), TypeOf(heap, Me(self)))]

\* __rtruediv__ without its last branch: whatever is no signal is made a Const.
BaseSignal_rtruediv_unchecked(heap, self, other) ==
    IF other.kind = "signal" THEN Composite(heap, "DivisionOfSignals", other.id, self)
    ELSE CompositeLeftConst(heap, "DivisionOfSignals",
                            IF other.kind = "num" THEN other.val ELSE other.type, self)

BaseSignal_rsub(heap, self, other) ==
    IF other.kind = "signal" THEN Composite(heap, "DifferenceOfSignals", other.id, self)
    ELSE IF other.kind = "num"
    THEN CompositeLeftConst(heap, "DifferenceOfSignals", other.val, self)
    ELSE [heap |-> heap,
          ret |-> TypeError("-", TypeOf(heap, other), TypeOf(heap, Me(self)))]

BaseSignal_truediv(heap, self, other) ==
    IF other.kind = "signal" THEN Composite(heap, "DivisionOfSignals", self, other.id)
    ELSE IF other.kind = "num"
    THEN CompositeRightConst(heap, "DivisionOfSignals", self, other.val)
    ELSE [heap |-> heap,
          ret |-> TypeError("/", TypeOf(heap, Me(self)), TypeOf(heap, other))]

BaseSignal_rtruediv(heap, self, other) ==
    IF other.kind = "signal" THEN Composite(heap, "DivisionOfSignals", other.id, self)
    ELSE IF other.kind = "num"
    THEN CompositeLeftConst(heap, "DivisionOfSignals", other.val, self)
    ELSE [heap |-> heap,
          ret |-> TypeError("/", TypeOf(heap, other), TypeOf(heap, Me(self)))]

(***************************************************************************)
(* eval_on: the list of self(t_i), in the order of t, made a numpy array.  *)
(* The list comprehension stops at the first call that raises.  np.array   *)
(* gives int64 to a non-empty list of ints and float64 to any other list.  *)
(***************************************************************************)
np_array(list) ==
    LET dtype == IF list # <<>> /\ \A i \in 1..Len(list) : list[i].ty = "int"
                 THEN "int64" ELSE "float64"
    IN  [kind |-> "ndarray", dtype |-> dtype,
         data |-> [i \in 1..Len(list) |-> [list[i] EXCEPT !.ty = dtype]]]

RECURSIVE Flatten(_)
Flatten(ss) == IF ss = <<>> THEN <<>> ELSE Head(ss) \o Flatten(Tail(ss))

\* eval_on over the timestamps in increasing order, each once.
BaseSignal_eval_on_sorted(heap, self, t) ==
    LET T == {t[i] : i \in 1..Len(t)}
        Rank(x) == Cardinality({y \in T : py_le(y, x)})
        sorted == [i \in 1..Cardinality(T) |-> CHOOSE x \in T : Rank(x) = i]
        calls == [i \in 1..Len(sorted) |-> BaseSignal_call(heap, self, sorted[i])]
        bad == {i \in 1..Len(sorted) : calls[i].out.kind = "raise"}
    IN  IF bad = {}
        THEN [out |-> np_array([i \in 1..Len(sorted) |-> calls[i].out.val]),
              sig |-> Flatten([i \in 1..Len(sorted) |-> calls[i].sig])]
        ELSE LET k == CHOOSE i \in bad : \A j \in bad : i <= j
             IN  [out |-> calls[k].out,
                  sig |-> Flatten([i \in 1..k |-> calls[i].sig])]

BaseSignal_eval_on(heap, self, t) ==
    LET calls == [i \in 1..Len(t) |-> BaseSignal_call(heap, self, t[i])]
        bad == {i \in 1..Len(t) : calls[i].out.kind = "raise"}
    IN  IF bad = {}
        THEN [out |-> np_array([i \in 1..Len(t) |-> calls[i].out.val]),
              sig |-> Flatten([i \in 1..Len(t) |-> calls[i].sig])]
        ELSE LET k == CHOOSE i \in bad : \A j \in bad : i <= j
             IN  [out |-> calls[k].out,
                  sig |-> Flatten([i \in 1..k |-> calls[i].sig])]

(***************************************************************************)
(* The clients.  A run draws its inputs from one family: the Const calls   *)
(* it makes, the operator methods it uses, the numbers and other objects   *)
(* it passes to them, the timestamps it evaluates at and the timestamps of *)
(* its batches.                                                            *)
(***************************************************************************)
Scenarios == {"stitch", "gate", "positional", "sums", "products", "zero"}

Positional(args) == [args |-> args, kwargs |-> <<>>]

Keywords(kwargs) == [args |-> <<>>, kwargs |-> kwargs]

ConstCalls(s) ==
    CASE s = "stitch" ->
           {Keywords([value |-> PyInt(1), t_start |-> PyInt(0), t_end |-> PyInt(2)]),
            Keywords([value |-> PyInt(1), t_start |-> PyInt(1), t_end |-> PyInt(3)])}
      [] s = "gate" ->
           {Keywords([value |-> PyInt(5), t_start |-> PyInt(2), t_end |-> PyInt(5)]),
            [args |-> <<PyInt(5)>>, kwargs |-> [t_start |-> PyInt(2), t_end |-> PyInt(5)]]}
      [] s = "positional" ->
           {Positional(<<PyInt(2)>>), Positional(<<PyInt(3)>>)}
      [] s \in {"sums", "products"} ->
           {Keywords([value |-> PyInt(2), t_start |-> PyInt(0), t_end |-> PyInt(1)])}
      [] s = "zero" ->
           {Keywords([value |-> PyInt(1), t_start |-> PyInt(0), t_end |-> PyInt(1)])}

Methods(s) ==
    CASE s = "stitch" -> {"__sub__"}
      [] s = "gate" -> {}
      [] s = "positional" -> {"__add__"}
      [] s = "sums" -> {"__add__", "__radd__", "__sub__", "__rsub__"}
      [] s = "products" -> {"__mul__", "__rmul__", "__truediv__", "__rtruediv__"}
      [] s = "zero" -> {"__truediv__", "__rtruediv__"}

Literals(s) ==
    CASE s = "sums" -> {PyInt(3)}
      [] s = "products" -> {PyFloat(1, 2)}
      [] s = "zero" -> {PyInt(0)}
      [] OTHER -> {}

Objects(s) ==
    CASE s \in {"sums", "products"} -> {"str"}
      [] OTHER -> {}

Times(s) ==
    CASE s = "stitch" ->
           {PyInt(0), PyFloat(1, 2), PyInt(1), PyFloat(3, 2), PyInt(2), PyFloat(5, 2),
            PyInt(3)}
      [] s = "gate" -> {PyInt(1), PyInt(2), PyFloat(4999, 1000), PyInt(5)}
      [] s = "positional" -> {PyInt(0), PyInt(100)}
      [] s \in {"sums", "products"} -> {PyInt(-1), PyInt(0), PyInt(1)}
      [] s = "zero" -> {PyInt(0), PyInt(1)}

BatchTimes(s) ==
    CASE s = "zero" -> {PyInt(0), PyInt(1)}
      [] OTHER -> {}

\* The sequences of at most MaxLen timestamps of a family.
Batches(s) == UNION {[1..n -> BatchTimes(s)] : n \in 0..MaxLen}

Operands(s, heap) ==
    {[kind |-> "signal", id |-> i] : i \in DOMAIN heap}
        \cup {[kind |-> "num", val |-> v] : v \in Literals(s)}
        \cup {[kind |-> "obj", type |-> x] : x \in Objects(s)}

(***************************************************************************)
(* The state machine: the client builds nodes and evaluates them, one      *)
(* statement at a time.  `last` holds the statement's operation and what   *)
(* it returned or raised, until the client drops it and goes on.           *)
(***************************************************************************)
Idle == [op |-> "idle", self |-> 0, arg |-> <<>>, ret |-> [kind |-> "none"], sig |-> <<>>]

Init ==
    /\ scn \in Scenarios
    /\ nodes = <<>>
    /\ last = Idle

\* Const(*c.args, **c.kwargs)
Const(c) ==
    LET r == Const_init(c.args, c.kwargs)
    IN  /\ last = Idle
        /\ Len(nodes) < MaxNodes
        /\ IF r.kind = "object"
           THEN /\ nodes' = New(nodes, r.obj).heap
                /\ last' = [op |-> "Const", self |-> 0, arg |-> c,
                            ret |-> [kind |-> "node", id |-> New(nodes, r.obj).id],
                            sig |-> <<>>]
           ELSE /\ nodes' = nodes
                /\ last' = [op |-> "Const", self |-> 0, arg |-> c, ret |-> r,
                            sig |-> <<>>]
        /\ UNCHANGED scn

\* An operator method, whose outcome is r, called on self with other.
Method(name, self, other, r) ==
    /\ last = Idle
    /\ name \in Methods(scn)
    /\ Len(r.heap) <= MaxNodes
    /\ nodes' = r.heap
    /\ last' = [op |-> name, self |-> self, arg |-> other, ret |-> r.ret, sig |-> <<>>]
    /\ UNCHANGED scn

add(self, other) == Method("__add__", self, other, BaseSignal_add(nodes, self, other))

radd(self, other) == Method("__radd__", self, other, BaseSignal_radd(nodes, self, other))

mul(self, other) == Method("__mul__", self, other, BaseSignal_mul(nodes, self, other))

rmul(self, other) == Method("__rmul__", self, other, BaseSignal_rmul(nodes, self, other))

sub(self, other) == Method("__sub__", self, other, BaseSignal_sub(nodes, self, other))

rsub(self, other) == Method("__rsub__", self, other, BaseSignal_rsub(nodes, self, other))

truediv(self, other) ==
    Method("__truediv__", self, other, BaseSignal_truediv(nodes, self, other))

rtruediv(self, other) ==
    Method("__rtruediv__", self, other, BaseSignal_rtruediv(nodes, self, other))

\* A call that keeps what it returned in the node it was made on.
call_caching(self, t) ==
    LET r == BaseSignal_call(nodes, self, t)
    IN  /\ last = Idle
        /\ last' = [op |-> "__call__", self |-> self, arg |-> t, ret |-> r.out,
                    sig |-> r.sig]
        /\ nodes' = IF nodes[self].cls = "Const" /\ r.out.kind = "value"
                    THEN [nodes EXCEPT ![self].value = r.out.val]
                    ELSE nodes
        /\ UNCHANGED scn

\* nodes[self](t)
call(self, t) ==
    LET r == BaseSignal_call(nodes, self, t)
    IN  /\ last = Idle
        /\ last' = [op |-> "__call__", self |-> self, arg |-> t, ret |-> r.out,
                    sig |-> r.sig]
        /\ UNCHANGED <<scn, nodes>>

\* nodes[self].eval_on(t)
eval_on(self, t) ==
    LET r == BaseSignal_eval_on(nodes, self, t)
    IN  /\ last = Idle
        /\ last' = [op |-> "eval_on", self |-> self, arg |-> t, ret |-> r.out,
                    sig |-> r.sig]
        /\ UNCHANGED <<scn, nodes>>

\* The statement is over: the client drops what it got.
Drop ==
    /\ last # Idle
    /\ last' = Idle
    /\ UNCHANGED <<scn, nodes>>

Next ==
    \/ \E c \in ConstCalls(scn) : Const(c)
    \/ \E self \in DOMAIN nodes, other \in Operands(scn, nodes) : add(self, other)
    \/ \E self \in DOMAIN nodes, other \in Operands(scn, nodes) : radd(self, other)
    \/ \E self \in DOMAIN nodes, other \in Operands(scn, nodes) : mul(self, other)
    \/ \E self \in DOMAIN nodes, other \in Operands(scn, nodes) : rmul(self, other)
    \/ \E self \in DOMAIN nodes, other \in Operands(scn, nodes) : sub(self, other)
    \/ \E self \in DOMAIN nodes, other \in Operands(scn, nodes) : rsub(self, other)
    \/ \E self \in DOMAIN nodes, other \in Operands(scn, nodes) : truediv(self, other)
    \/ \E self \in DOMAIN nodes, other \in Operands(scn, nodes) : rtruediv(self, other)
    \/ \E self \in DOMAIN nodes, t \in Times(scn) : call(self, t)
    \/ \E self \in DOMAIN nodes, t \in Batches(scn) : eval_on(self, t)
    \/ Drop

Spec == Init /\ [][Next]_vars

(***************************************************************************)
(* What the properties are stated with: arithmetic on fractions written    *)
(* out by cross-multiplication, the value of a node at a time, and the     *)
(* shape of the last operation.                                            *)
(***************************************************************************)
MethodNames ==
    {"__add__", "__radd__", "__mul__", "__rmul__", "__sub__", "__rsub__",
     "__truediv__", "__rtruediv__"}

Symbol(name) ==
    CASE name \in {"__add__", "__radd__"} -> "+"
      [] name \in {"__mul__", "__rmul__"} -> "*"
      [] name \in {"__sub__", "__rsub__"} -> "-"
      [] name \in {"__truediv__", "__rtruediv__"} -> "/"

ClassOf(name) ==
    CASE name \in {"__add__", "__radd__"} -> "SumOfSignals"
      [] name \in {"__mul__", "__rmul__"} -> "ProductOfSignals"
      [] name \in {"__sub__", "__rsub__"} -> "DifferenceOfSignals"
      [] name \in {"__truediv__", "__rtruediv__"} -> "DivisionOfSignals"

\* v == x, v == x + y, v == x - y, v == x * y and v == x / y on finite numbers
NumEq(v, x) == IsFinite(v) /\ v.n * x.d = x.n * v.d

IsSum(v, x, y) == IsFinite(v) /\ v.n * x.d * y.d = (x.n * y.d + y.n * x.d) * v.d

IsDifference(v, x, y) == IsFinite(v) /\ v.n * x.d * y.d = (x.n * y.d - y.n * x.d) * v.d

IsProduct(v, x, y) == IsFinite(v) /\ v.n * x.d * y.d = x.n * y.n * v.d

IsQuotient(v, x, y) == IsFinite(v) /\ y.n # 0 /\ v.n * x.d * y.n = x.n * y.d * v.d

\* out is what the operator of cls gives on the outcomes l and r of the operands:
\* it raises if an operand raised, or if a quotient's divisor is zero.
Applies(cls, out, l, r) ==
    IF l.kind = "raise" \/ r.kind = "raise" THEN out.kind = "raise"
    ELSE CASE cls = "SumOfSignals" -> out.kind = "value" /\ IsSum(out.val, l.val, r.val)
           [] cls = "DifferenceOfSignals" ->
                out.kind = "value" /\ IsDifference(out.val, l.val, r.val)
           [] cls = "ProductOfSignals" ->
                out.kind = "value" /\ IsProduct(out.val, l.val, r.val)
           [] cls = "DivisionOfSignals" ->
                IF r.val.n = 0 THEN out = Raise("ZeroDivisionError")
                ELSE out.kind = "value" /\ IsQuotient(out.val, l.val, r.val)

\* nodes[id](t), as the heap stands
At(id, t) == BaseSignal_call(nodes, id, t).out

\* t_start <= t < t_end, for a finite t and a window that may be unbounded
Within(t_start, t, t_end) ==
    /\ t_start = NINF \/ (IsFinite(t_start) /\ t_start.n * t.d <= t.n * t_start.d)
    /\ t_end = PINF \/ (IsFinite(t_end) /\ t.n * t_end.d < t_end.n * t.d)

\* tau == t - t_start, for a finite t
IsLocalTime(tau, t, t_start) ==
    IF t_start = NINF THEN tau = PINF ELSE IsDifference(tau, t, t_start)

Called == last.op = "__call__"

Built == last.op \in MethodNames /\ last.ret.kind = "node"

ConstNode(value, t_start, t_end) ==
    [cls |-> "Const", t_start |-> t_start, t_end |-> t_end, value |-> value]

(***************************************************************************)
(* C1.  A composite evaluated at t returns its operator applied to lhs(t)  *)
(* and rhs(t), each operand gated by its own window, the composite having  *)
(* none: Const(value=1, t_start=0, t_end=2) - Const(value=1, t_start=1,    *)
(* t_end=3) is 1, 1, 0, 0, -1, -1, 0 at t = 0, 0.5, 1, 1.5, 2, 2.5, 3.     *)
(***************************************************************************)
StitchExpected(t) ==
    CASE t \in {PyInt(0), PyFloat(1, 2)} -> PyInt(1)
      [] t \in {PyInt(1), PyFloat(3, 2), PyInt(3)} -> PyInt(0)
      [] t \in {PyInt(2), PyFloat(5, 2)} -> PyInt(-1)

IsStitch(c) ==
    /\ c.cls = "DifferenceOfSignals"
    /\ nodes[c.lhs] = ConstNode(PyInt(1), PyInt(0), PyInt(2))
    /\ nodes[c.rhs] = ConstNode(PyInt(1), PyInt(1), PyInt(3))

\* C1: the value of a composite is its operator on the values of its operands.
TheoremC1 ==
    (Called /\ nodes[last.self].cls \in CompositeClasses) =>
        LET c == nodes[last.self]
        IN  /\ Applies(c.cls, last.ret, At(c.lhs, last.arg), At(c.rhs, last.arg))
            /\ (scn = "stitch" /\ IsStitch(c)) =>
                   /\ last.ret.kind = "value"
                   /\ NumEq(last.ret.val, StitchExpected(last.arg))

WitnessC1 ==
    /\ Called /\ scn = "stitch" /\ nodes[last.self].cls \in CompositeClasses
    /\ IsStitch(nodes[last.self])
    /\ last.arg = PyFloat(5, 2)
    /\ last.ret = Return(PyFloat(-1, 1))

(***************************************************************************)
(* C2.  A windowed signal evaluated at t returns its local rule applied to *)
(* t - t_start if t_start <= t < t_end, and exactly 0 otherwise; t_start   *)
(* is active and t_end is not: Const(value=5, t_start=2, t_end=5) is 0 at  *)
(* t = 1, 5 at t = 2, 5 at t = 4.999 and 0 at t = 5.                       *)
(***************************************************************************)
GateExpected(t) ==
    CASE t \in {PyInt(1), PyInt(5)} -> PyInt(0)
      [] t \in {PyInt(2), PyFloat(4999, 1000)} -> PyInt(5)

\* C2: a leaf is its value, given the local time, inside [t_start, t_end), and 0.0 outside.
TheoremC2 ==
    (Called /\ nodes[last.self].cls = "Const") =>
        LET n == nodes[last.self]
            t == last.arg
        IN  /\ IF Within(n.t_start, t, n.t_end)
               THEN /\ last.ret = Return(n.value)
                    /\ Len(last.sig) = 1
                    /\ last.sig[1].node = last.self
                    /\ IsLocalTime(last.sig[1].t, t, n.t_start)
               ELSE /\ last.ret = Return(PyFloat(0, 1))
                    /\ last.sig = <<>>
            /\ (scn = "gate" /\ n = ConstNode(PyInt(5), PyInt(2), PyInt(5))) =>
                   NumEq(last.ret.val, GateExpected(t))

WitnessC2 ==
    /\ Called /\ scn = "gate"
    /\ nodes[last.self] = ConstNode(PyInt(5), PyInt(2), PyInt(5))
    /\ last.arg = PyFloat(4999, 1000)
    /\ last.ret = Return(PyInt(5))
    /\ last.sig = <<[node |-> last.self, t |-> PyFloat(2999, 1000)]>>

(***************************************************************************)
(* C3.  The constant leaf constructor takes the value as its first         *)
(* argument, and with the default window it is active at every time: with  *)
(* a = Const(2), b = Const(3) and s = a + b, s(0) == 5 and s(100) == 5.    *)
(***************************************************************************)
\* C3, as claimed: the first positional argument of Const is the value.
CounterexampleC3 ==
    /\ (last.op = "Const" /\ last.arg.args # <<>> /\ last.ret.kind = "node") =>
           nodes[last.ret.id].value = last.arg.args[1]
    /\ (/\ Called /\ scn = "positional"
        /\ nodes[last.self].cls = "SumOfSignals"
        /\ nodes[nodes[last.self].lhs] = Const_init(<<PyInt(2)>>, <<>>).obj
        /\ nodes[nodes[last.self].rhs] = Const_init(<<PyInt(3)>>, <<>>).obj) =>
           (last.ret.kind = "value" /\ NumEq(last.ret.val, PyInt(5)))

(***************************************************************************)
(* C4.  An operator method (+, -, *, / and the reflected forms) given an   *)
(* operand that is neither a signal nor a number raises a TypeError when   *)
(* it is called, naming the operator and the types of both operands, and   *)
(* builds no node.                                                         *)
(***************************************************************************)
\* C4: a method given another object raises TypeError and leaves the heap as it was.
TheoremC4 ==
    [][(last = Idle /\ last'.op \in MethodNames /\ last'.arg.kind = "obj") =>
           /\ nodes' = nodes
           /\ last'.ret.kind = "raise"
           /\ last'.ret.exc = "TypeError"
           /\ last'.ret.operator = Symbol(last'.op)
           /\ \/ (/\ last'.ret.left = nodes[last'.self].cls
                  /\ last'.ret.right = last'.arg.type)
              \/ (/\ last'.ret.left = last'.arg.type
                  /\ last'.ret.right = nodes[last'.self].cls)]_vars

WitnessC4 ==
    /\ last.op = "__rtruediv__" /\ last.arg.kind = "obj"
    /\ last.ret.kind = "raise" /\ last.ret.exc = "TypeError"
    /\ nodes[last.self].cls = "ProductOfSignals"

(***************************************************************************)
(* C5.  Reflected subtraction and division keep the order of the operands: *)
(* c - a builds Difference(Const(c), a) and c / a builds                   *)
(* Quotient(Const(c), a), so that (c - a)(t) == c - a(t) and               *)
(* (c / a)(t) == c / a(t) at every t; they are not a - c and a / c.        *)
(***************************************************************************)
\* C5: __rsub__ and __rtruediv__ put Const(value=c) on the left and self on the right.
TheoremC5 ==
    (last.op \in {"__rsub__", "__rtruediv__"} /\ last.arg.kind = "num") =>
        /\ last.ret.kind = "node"
        /\ LET c == last.arg.val
               s == last.ret.id
           IN  /\ nodes[s] = [cls |-> ClassOf(last.op), lhs |-> s - 1, rhs |-> last.self]
               /\ nodes[s - 1].cls = "Const" /\ nodes[s - 1].value = c
               /\ \A t \in Times(scn) :
                      Applies(ClassOf(last.op), At(s, t), Return(c), At(last.self, t))

WitnessC5 ==
    /\ scn = "sums" /\ last.op = "__rsub__" /\ last.arg = [kind |-> "num", val |-> PyInt(3)]
    /\ last.ret.kind = "node"
    /\ nodes[last.self].cls = "Const"
    /\ At(last.self, PyInt(0)) = Return(PyInt(2))
    /\ At(last.ret.id, PyInt(0)) = Return(PyInt(1))

(***************************************************************************)
(* C6.  eval_on(ts), for any signal and any finite sequence ts (empty,     *)
(* with repeats, unordered), returns a sequence of the length of ts whose  *)
(* i-th element equals signal(ts[i]).  As the code has it: that holds when *)
(* every signal(ts[i]) returns; when one raises, eval_on raises too.       *)
(***************************************************************************)
\* C6, as claimed: eval_on always returns the array of the single evaluations.
CounterexampleC6 ==
    last.op = "eval_on" =>
        /\ last.ret.kind = "ndarray"
        /\ Len(last.ret.data) = Len(last.arg)
        /\ \A i \in 1..Len(last.arg) :
               /\ At(last.self, last.arg[i]).kind = "value"
               /\ NumEq(last.ret.data[i], At(last.self, last.arg[i]).val)

\* C6, as amended: the array of the single evaluations if all return, else their error.
TheoremC6 ==
    last.op = "eval_on" =>
        LET ts == last.arg
        IN  IF \A i \in 1..Len(ts) : At(last.self, ts[i]).kind = "value"
            THEN /\ last.ret.kind = "ndarray"
                 /\ Len(last.ret.data) = Len(ts)
                 /\ \A i \in 1..Len(ts) :
                        NumEq(last.ret.data[i], At(last.self, ts[i]).val)
            ELSE last.ret = Raise("ZeroDivisionError")

WitnessC6 ==
    /\ last.op = "eval_on"
    /\ last.arg = <<PyInt(1), PyInt(0)>>
    /\ last.ret.kind = "ndarray"
    /\ NumEq(last.ret.data[1], PyInt(0))
    /\ NumEq(last.ret.data[2], PyInt(1))

(***************************************************************************)
(* C7.  A Quotient evaluated at a time at which its right operand          *)
(* evaluates to zero (a zero constant, a windowed signal outside its       *)
(* window) does not raise: it returns an infinity or not-a-number, the     *)
(* same for every pair of operands.  As the code has it: it raises         *)
(* ZeroDivisionError, for every pair of operands.                          *)
(***************************************************************************)
ZeroDivisor ==
    /\ Called /\ nodes[last.self].cls = "DivisionOfSignals"
    /\ At(nodes[last.self].rhs, last.arg).kind = "value"
    /\ At(nodes[last.self].rhs, last.arg).val.n = 0
    /\ IsFinite(At(nodes[last.self].rhs, last.arg).val)

\* C7, as claimed: a zero divisor gives an infinity or nan, and no error.
CounterexampleC7 ==
    ZeroDivisor => (last.ret.kind = "value" /\ last.ret.val \in {PINF, NINF, NAN})

\* C7, as amended: a zero divisor raises ZeroDivisionError, whatever the dividend.
TheoremC7 == ZeroDivisor => last.ret = Raise("ZeroDivisionError")

WitnessC7 ==
    /\ ZeroDivisor
    /\ nodes[nodes[last.self].rhs] = Const_value(PyInt(0))
    /\ At(nodes[last.self].lhs, last.arg) = Return(PyInt(1))
    /\ last.ret = Raise("ZeroDivisionError")

(***************************************************************************)
(* C8.  A number given to +, -, *, / on either side becomes a constant     *)
(* leaf that is active at every time, so that it contributes exactly c at  *)
(* every t, negative or outside the window of the signal operand:          *)
(* (a + c)(t) == a(t) + c, (a * c)(t) == a(t) * c.  A signal operand is    *)
(* passed through as it is, by identity.                                   *)
(***************************************************************************)
SelfOnTheRight == {"__rsub__", "__rtruediv__"}

\* C8: a number operand is a Const active at every time; a signal operand is itself.
TheoremC8 ==
    Built =>
        LET s == last.ret.id
            c == nodes[s]
            mine == IF last.op \in SelfOnTheRight THEN c.rhs ELSE c.lhs
            theirs == IF last.op \in SelfOnTheRight THEN c.lhs ELSE c.rhs
        IN  /\ c.cls = ClassOf(last.op)
            /\ mine = last.self
            /\ last.arg.kind = "signal" => theirs = last.arg.id
            /\ last.arg.kind = "num" =>
                   /\ theirs = s - 1
                   /\ nodes[theirs].cls = "Const"
                   /\ \A t \in Times(scn) :
                          /\ At(theirs, t) = Return(last.arg.val)
                          /\ IF last.op \in SelfOnTheRight
                             THEN Applies(c.cls, At(s, t), Return(last.arg.val),
                                          At(last.self, t))
                             ELSE Applies(c.cls, At(s, t), At(last.self, t),
                                          Return(last.arg.val))

WitnessC8 ==
    /\ Built /\ scn = "sums" /\ last.op = "__add__"
    /\ last.arg = [kind |-> "num", val |-> PyInt(3)]
    /\ nodes[last.self].cls = "Const"
    /\ At(last.self, PyInt(-1)) = Return(PyFloat(0, 1))
    /\ At(last.ret.id, PyInt(-1)) = Return(PyFloat(3, 1))
    /\ At(last.ret.id, PyInt(0)) = Return(PyInt(5))

(***************************************************************************)
(* C9.  After any sequence of leaf constructions and operator calls, also  *)
(* ones that use a node twice or under several parents, the operand graph  *)
(* is acyclic: the lhs and rhs of every composite are nodes built before   *)
(* it, no node is reachable from itself, and an evaluation ends, after at  *)
(* most 2^(k-1) calls of _signal for the k-th node built.                  *)
(***************************************************************************)
Children(i) == IF nodes[i].cls = "Const" THEN {} ELSE {nodes[i].lhs, nodes[i].rhs}

RECURSIVE Closure(_, _)
Closure(S, fuel) ==
    LET T == S \cup UNION {Children(i) : i \in S \cap DOMAIN nodes}
    IN  IF T = S \/ fuel = 0 THEN T ELSE Closure(T, fuel - 1)

Descendants(i) == Closure(Children(i), Len(nodes))

\* C9: operands are older nodes, no node descends from itself, evaluations are finite.
TheoremC9 ==
    /\ \A i \in DOMAIN nodes :
           /\ Children(i) \subseteq 1..(i - 1)
           /\ i \notin Descendants(i)
    /\ Called => Len(last.sig) <= 2 ^ (last.self - 1)

WitnessC9 ==
    /\ Called
    /\ \E i, j \in DOMAIN nodes :
           /\ i < j /\ nodes[i].cls # "Const" /\ nodes[j].cls # "Const"
           /\ nodes[i].lhs = nodes[i].rhs
           /\ nodes[i].lhs \in Children(j)
           /\ i \in Children(j)
           /\ last.self = j
    /\ last.ret.kind = "value"

(***************************************************************************)
(* C10.  No evaluation (a call, eval_on) and no construction changes a     *)
(* field of a node that exists, and nothing is kept between calls: a node  *)
(* evaluated at a time gives the same result whatever was built or         *)
(* evaluated in between, also when it is shared by several composites or   *)
(* is both operands of one (a + a).                                        *)
(***************************************************************************)
\* C10: every step leaves every existing node, and its value at every time, as it was.
TheoremC10 ==
    [][\/ nodes' = nodes
       \/ \A i \in DOMAIN nodes :
              /\ i \in DOMAIN nodes'
              /\ nodes'[i] = nodes[i]
              /\ \A t \in Times(scn) :
                     BaseSignal_call(nodes', i, t) = BaseSignal_call(nodes, i, t)]_vars

WitnessC10 ==
    /\ Called
    /\ nodes[last.self].cls = "Const"
    /\ \E i, j \in DOMAIN nodes :
           /\ i < j /\ nodes[i].cls # "Const" /\ nodes[j].cls # "Const"
           /\ nodes[i].lhs = last.self /\ nodes[i].rhs = last.self
           /\ last.self \in Children(j)

====
